---- MODULE Spec2Model ----
(***************************************************************************)
(* Model of src/mechanical_properties.py.                                  *)
(*                                                                         *)
(* MaterialsDatabase: the sqlite tables materials, material_categories and *)
(* mechanical_properties, the views properties and category_summaries, the *)
(* constraints the schema declares (UNIQUE / PRIMARY KEY, FOREIGN KEY ...  *)
(* ON UPDATE CASCADE ON DELETE CASCADE, column affinity), the connection's *)
(* pending transaction, the record operations add_entry, update_entry and  *)
(* delete_material, the filters (class Filter, add_filter, remove_filter,  *)
(* clear_filters) and the queries get_entry_by_material,                   *)
(* get_filtered_entries, get_all_entries and get_category_summaries, the   *)
(* text of the filtered query being read as sqlite reads it.               *)
(*                                                                         *)
(* MaterialsDatabaseEditor and command_line: the commands of the menus.    *)
(*                                                                         *)
(* Specifications: Spec (the record operations on a new store), SpecEditor *)
(* (the "Edit Database" menu), SpecQuery (filters, queries and record      *)
(* operations on an opened store), SpecFilterMenu (the filter menu) and    *)
(* SpecCommandLine (the main menu and the menus of an opened database).    *)
(***************************************************************************)
EXTENDS Integers, Sequences, FiniteSets, TLC

\* Number of database calls explored in one session.
MaxOps == 3

(***************************************************************************)
(* Values.  A Python argument is bound to a sqlite value of the same kind  *)
(* (None -> NULL, str -> TEXT, float -> REAL); the column's affinity then  *)
(* decides what is stored.                                                 *)
(***************************************************************************)
NULL == [type |-> "null"]
TEXT(s) == [type |-> "text", text |-> s]
REAL(n) == [type |-> "real", num |-> n]
INTEGER(n) == [type |-> "integer", num |-> n]

\* Strings Python's float() accepts (surrounding blanks are ignored), with
\* the number each denotes; float() raises ValueError on every other string.
FloatLiterals == ("1" :> 1) @@ (" 2" :> 2)

\* Faulty variant of float: an unparsable string counts as 0 instead of raising.
float_lenient(value) ==
    IF value \in DOMAIN FloatLiterals
    THEN [raised |-> "none", value |-> REAL(FloatLiterals[value])]
    ELSE [raised |-> "none", value |-> REAL(0)]

\* float(value): the number, or ValueError raised
float(value) ==
    IF value \in DOMAIN FloatLiterals
    THEN [raised |-> "none", value |-> REAL(FloatLiterals[value])]
    ELSE [raised |-> "ValueError", value |-> NULL]

\* Text that sqlite's INTEGER affinity converts to a number.
NumericText == ("1" :> 1) @@ (" 2" :> 2) @@ ("2" :> 2)

\* What a column declared INTEGER stores for a bound value: a REAL without
\* fractional part and a TEXT that looks like a number become INTEGER, NULL
\* and every other TEXT (the empty string among them) are stored as they are.
integer_affinity(v) ==
    IF v.type = "real" THEN INTEGER(v.num)
    ELSE IF v.type = "text" /\ v.text \in DOMAIN NumericText THEN INTEGER(NumericText[v.text])
    ELSE v

(***************************************************************************)
(* class Filter.  A str is a string: \o joins two, Len gives the length    *)
(* and SubSeq(s, i, i) the i-th character.                                 *)
(***************************************************************************)
OPERATORS == <<"<", "=", ">", ">=", "<=">>

\* sep.join(strs)
RECURSIVE join(_, _)
join(strs, sep) ==
    IF Len(strs) = 0 THEN ""
    ELSE IF Len(strs) = 1 THEN strs[1]
    ELSE strs[1] \o sep \o join(Tail(strs), sep)

\* Filter.InvalidOperator(operator).message
InvalidOperator(operator) ==
    "Invalid Operator (" \o operator \o "): Must be [" \o join(OPERATORS, ", ") \o "]"

\* Faulty variant of Filter: "==" is taken for "=" and ">=" is not known.
Filter_other_operators(column, value, operator, id) ==
    IF operator \notin {"<", "=", "==", ">", "<="}
    THEN [raised |-> "InvalidOperator", message |-> InvalidOperator(operator), object |-> {}]
    ELSE [raised |-> "none", message |-> "",
          object |-> {[id |-> id, column |-> column, value |-> value, operator |-> operator]}]

\* Filter(column, value, operator): the object constructed (id stands for its
\* identity; no two objects share one), or InvalidOperator raised
Filter(column, value, operator, id) ==
    IF operator \notin {OPERATORS[i] : i \in DOMAIN OPERATORS}
    THEN [raised |-> "InvalidOperator", message |-> InvalidOperator(operator), object |-> {}]
    ELSE [raised |-> "none", message |-> "",
          object |-> {[id |-> id, column |-> column, value |-> value, operator |-> operator]}]

(***************************************************************************)
(* Schema                                                                  *)
(***************************************************************************)
DEFUALT_MATERIAL_CATEGORIES == <<"Metal", "Polymer", "Ceramic", "Composite", "Other">>

\* The rows of material_categories: seeded by create_database, never written
\* by any other operation.
material_categories == {DEFUALT_MATERIAL_CATEGORIES[i] : i \in DOMAIN DEFUALT_MATERIAL_CATEGORIES}

\* The six numeric columns of mechanical_properties, in declaration order.
PROPERTY_COLUMNS ==
    <<"density", "modulus_of_elasticity", "modulus_of_rigidity",
      "yield_strength", "ultimate_tensile_strength", "percent_elongation">>

PropertyColumnSet == {PROPERTY_COLUMNS[i] : i \in DOMAIN PROPERTY_COLUMNS}

\* Faulty variant of mechanical_properties_row: the six values are bound in
\* reverse order.
mechanical_properties_row_reversed(material, properties) ==
    [c \in {"material"} \cup PropertyColumnSet |->
        IF c = "material" THEN material
        ELSE integer_affinity(properties[Len(PROPERTY_COLUMNS) + 1
                - (CHOOSE i \in DOMAIN PROPERTY_COLUMNS : PROPERTY_COLUMNS[i] = c)])]

\* A row of mechanical_properties for the INSERT's seven bound values.
mechanical_properties_row(material, properties) ==
    [c \in {"material"} \cup PropertyColumnSet |->
        IF c = "material" THEN material
        ELSE integer_affinity(properties[CHOOSE i \in DOMAIN PROPERTY_COLUMNS : PROPERTY_COLUMNS[i] = c])]

\* A row of the view "properties": materials JOIN mechanical_properties.
properties_row(m, p) ==
    [c \in {"material", "category"} \cup PropertyColumnSet |->
        IF c = "material" THEN m.material
        ELSE IF c = "category" THEN m.category
        ELSE p[c]]

\* The view "properties" over the tables of db.
properties_view(db) ==
    {properties_row(m, p) : <<m, p>> \in
        {mp \in db.materials \X db.mechanical_properties :
            /\ mp[1].category \in material_categories
            /\ mp[1].material = mp[2].material}}

(***************************************************************************)
(* Constraints the schema declares, enforced with PRAGMA foreign_keys=ON   *)
(***************************************************************************)
\* materials.material UNIQUE: a row other than those in `own' has that name
materials_unique_fails(rows, own, name) ==
    \E r \in rows \ own : r.material = name

\* Faulty variant of category_foreign_key_fails: the reference is not enforced
\* (a connection opened without PRAGMA foreign_keys=ON).
category_foreign_key_off(category) ==
    FALSE

\* materials.category REFERENCES material_categories(category)
category_foreign_key_fails(category) ==
    category \notin material_categories

\* mechanical_properties.material UNIQUE
mechanical_properties_unique_fails(rows, own, material) ==
    \E r \in rows \ own : r.material = material

\* mechanical_properties.material REFERENCES materials(material)
material_foreign_key_fails(mats, material) ==
    \A m \in mats : m.material # material

\* Faulty variant of on_update_cascade: the child rows keep the old name.
on_update_cascade_off(mps, old, new) ==
    mps

\* ON UPDATE CASCADE: the child rows of a renamed material follow its new name
on_update_cascade(mps, old, new) ==
    {IF p.material = old THEN [p EXCEPT !.material = new] ELSE p : p \in mps}

\* Faulty variant of on_delete_cascade: the child rows are kept.
on_delete_cascade_off(mps, name) ==
    mps

\* ON DELETE CASCADE: the child rows of a deleted material are deleted
on_delete_cascade(mps, name) ==
    {p \in mps : p.material # name}

(***************************************************************************)
(* MaterialsDatabase: the statements.  db is the connection's view of the  *)
(* tables, [materials, mechanical_properties]; a statement that raises     *)
(* leaves db as it was.                                                    *)
(***************************************************************************)
\* Faulty variant of db_add_material: the name's uniqueness is not checked.
db_add_material_unchecked(db, name, category) ==
    IF category_foreign_key_fails(category)
    THEN [raised |-> "IntegrityError", db |-> db]
    ELSE [raised |-> "none",
          db |-> [db EXCEPT !.materials = @ \cup {[material |-> name, category |-> category]}]]

\* INSERT INTO materials(material, category) VALUES (?, ?)
db_add_material(db, name, category) ==
    IF materials_unique_fails(db.materials, {}, name) \/ category_foreign_key_fails(category)
    THEN [raised |-> "IntegrityError", db |-> db]
    ELSE [raised |-> "none",
          db |-> [db EXCEPT !.materials = @ \cup {[material |-> name, category |-> category]}]]

\* INSERT INTO mechanical_properties(material, density, ...) VALUES (?,?,?,?,?,?,?)
db_add_mechanical_properties(db, material, properties) ==
    IF Len(properties) # Len(PROPERTY_COLUMNS)
    THEN [raised |-> "ProgrammingError", db |-> db]
    ELSE IF \/ mechanical_properties_unique_fails(db.mechanical_properties, {}, material)
            \/ material_foreign_key_fails(db.materials, material)
    THEN [raised |-> "IntegrityError", db |-> db]
    ELSE [raised |-> "none",
          db |-> [db EXCEPT !.mechanical_properties =
                      @ \cup {mechanical_properties_row(material, properties)}]]

\* Faulty variant of db_update_material: a rename does not check the new
\* name's uniqueness and replaces the rows in its way.
db_update_material_unchecked(db, name, column, value) ==
    LET matched == {r \in db.materials : r.material = name}
        updated == {[r EXCEPT ![column] = value] : r \in matched}
        fails == matched # {} /\ column = "category" /\ category_foreign_key_fails(value)
        replaced == IF column = "material" /\ matched # {}
                    THEN {r \in db.materials : r.material = value} ELSE {}
    IN  IF fails
        THEN [raised |-> "IntegrityError", db |-> db, rowcount |-> 0]
        ELSE [raised |-> "none",
              db |-> [materials |-> (db.materials \ (matched \cup replaced)) \cup updated,
                      mechanical_properties |->
                          IF column = "material" /\ matched # {}
                          THEN on_update_cascade({p \in db.mechanical_properties : p.material # value \/ value = name}, name, value)
                          ELSE db.mechanical_properties],
              rowcount |-> Cardinality(matched)]

\* UPDATE materials SET {column} = ? WHERE material = ?   (then commit)
db_update_material(db, name, column, value) ==
    LET matched == {r \in db.materials : r.material = name}
        updated == {[r EXCEPT ![column] = value] : r \in matched}
        children == {p \in db.mechanical_properties : p.material = name}
        fails ==
            /\ matched # {}
            /\ IF column = "material"
               THEN \/ materials_unique_fails(db.materials, matched, value)
                    \/ /\ children # {}
                       /\ mechanical_properties_unique_fails(db.mechanical_properties, children, value)
               ELSE category_foreign_key_fails(value)
    IN  IF fails
        THEN [raised |-> "IntegrityError", db |-> db, rowcount |-> 0]
        ELSE [raised |-> "none",
              db |-> [materials |-> (db.materials \ matched) \cup updated,
                      mechanical_properties |->
                          IF column = "material" /\ matched # {}
                          THEN on_update_cascade(db.mechanical_properties, name, value)
                          ELSE db.mechanical_properties],
              rowcount |-> Cardinality(matched)]

\* UPDATE mechanical_properties SET {column} = ? WHERE material = ?   (then commit)
db_update_mechanical_properties(db, name, column, value) ==
    LET matched == {r \in db.mechanical_properties : r.material = name}
        updated == {[r EXCEPT ![column] = integer_affinity(value)] : r \in matched}
    IN  [raised |-> "none",
         db |-> [db EXCEPT !.mechanical_properties = (@ \ matched) \cup updated],
         rowcount |-> Cardinality(matched)]

\* SELECT * FROM properties WHERE material = ?  and fetchone(): the set is
\* empty for None and holds the one row returned otherwise.
get_entry_by_material(db, material) ==
    LET rows == {r \in properties_view(db) : r.material = material}
    IN  IF rows = {} THEN {} ELSE {CHOOSE r \in rows : TRUE}

(***************************************************************************)
(* MaterialsDatabase: the operations.  Each takes the connection's view db *)
(* and the committed tables dsk and gives both after the call, with what   *)
(* the call raised, printed and returned.                                  *)
(***************************************************************************)
DUPLICATE_MESSAGE == "A material with that name already exists, please update that material instead..."

Outcome(db, dsk) ==
    [db |-> db, disk |-> dsk, raised |-> "none", printed |-> "", returned |-> "None",
     row |-> {}, rowcount |-> 0, rows |-> <<>>, message |-> "", query |-> ""]

add_entry(db, dsk, name, category, props) ==
    LET m == db_add_material(db, name, category)
        p == db_add_mechanical_properties(m.db, name, props)
    IN  IF m.raised = "IntegrityError"
        THEN \* except sqlite3.IntegrityError: print(...)
             [Outcome(m.db, dsk) EXCEPT !.printed = DUPLICATE_MESSAGE]
        ELSE IF p.raised # "none"
        THEN \* the second insert raises: the first stays pending, uncommitted
             [Outcome(p.db, dsk) EXCEPT !.raised = p.raised, !.returned = "-"]
        ELSE \* self.__CONN.commit()
             Outcome(p.db, p.db)

update_entry(db, dsk, name, column, value) ==
    LET numeric == column \notin {"material", "category"}
        parse_fails == numeric /\ value # "" /\ float(value).raised = "ValueError"
        bound == IF value # "" THEN float(value).value ELSE TEXT(value)
        u == IF numeric
             THEN db_update_mechanical_properties(db, name, column, bound)
             ELSE db_update_material(db, name, column, value)
        lookup == IF column = "material" THEN value ELSE name
        material == get_entry_by_material(u.db, lookup)
    IN  IF parse_fails
        THEN \* value = float(value) raises before any statement
             [Outcome(db, dsk) EXCEPT !.raised = "ValueError", !.returned = "-"]
        ELSE IF u.raised # "none"
        THEN \* the UPDATE raises: no commit is reached
             [Outcome(u.db, dsk) EXCEPT !.raised = u.raised, !.returned = "-"]
        ELSE \* committed; return self.get_entry_by_material(name)
             [Outcome(u.db, u.db) EXCEPT !.rowcount = u.rowcount,
                                         !.returned = IF material = {} THEN "None" ELSE "Row",
                                         !.row = material]

delete_material(db, dsk, name) ==
    LET matched == {r \in db.materials : r.material = name}
        after == [materials |-> db.materials \ matched,
                  mechanical_properties |->
                      IF matched # {}
                      THEN on_delete_cascade(db.mechanical_properties, name)
                      ELSE db.mechanical_properties]
    IN  IF Cardinality(matched) = 1
        THEN [Outcome(after, after) EXCEPT !.returned = "True", !.rowcount = 1]
        ELSE [Outcome(after, dsk) EXCEPT !.returned = "False", !.rowcount = Cardinality(matched)]

(***************************************************************************)
(* MaterialsDatabase: the filters.  fs is self.__filters.                  *)
(***************************************************************************)
\* Faulty variant of add_filter: the new filter is put in front.
add_filter_in_front(fs, column, value, operator, id) ==
    LET f == Filter(column, value, operator, id)
    IN  IF f.raised # "none"
        THEN [raised |-> f.raised, message |-> f.message, filters |-> fs]
        ELSE [raised |-> "none", message |-> "",
              filters |-> <<CHOOSE o \in f.object : TRUE>> \o fs]

\* self.__filters.append(Filter(column, value, operator))
add_filter(fs, column, value, operator, id) ==
    LET f == Filter(column, value, operator, id)
    IN  IF f.raised # "none"
        THEN [raised |-> f.raised, message |-> f.message, filters |-> fs]
        ELSE [raised |-> "none", message |-> "",
              filters |-> Append(fs, CHOOSE o \in f.object : TRUE)]

\* list.remove(x): the first item equal to x is removed (a Filter equals only
\* itself); ValueError if there is none
remove_filter(fs, filter) ==
    LET found == {i \in DOMAIN fs : fs[i] = filter}
        first == CHOOSE i \in found : \A j \in found : i <= j
    IN  IF found = {}
        THEN [raised |-> "ValueError", message |-> "list.remove(x): x not in list", filters |-> fs]
        ELSE [raised |-> "none", message |-> "",
              filters |-> SubSeq(fs, 1, first - 1) \o SubSeq(fs, first + 1, Len(fs))]

\* self.__filters = []
clear_filters(fs) ==
    [raised |-> "none", message |-> "", filters |-> <<>>]

(***************************************************************************)
(* The text of a query, as sqlite reads it: characters to tokens.  The     *)
(* tokens read are those a WHERE clause made of rendered filters can hold: *)
(* names, numbers, double-quoted text, comparison operators, AND, OR and   *)
(* the closing semicolon; a character of any other token gives a token of  *)
(* kind "other".                                                           *)
(***************************************************************************)
LowerCase ==
    { "a", "b", "c", "d", "e", "f", "g", "h", "i", "j", "k", "l", "m",
      "n", "o", "p", "q", "r", "s", "t", "u", "v", "w", "x", "y", "z" }

UpperCase ==
    { "A", "B", "C", "D", "E", "F", "G", "H", "I", "J", "K", "L", "M",
      "N", "O", "P", "Q", "R", "S", "T", "U", "V", "W", "X", "Y", "Z" }

Digits == {"0", "1", "2", "3", "4", "5", "6", "7", "8", "9"}

char(s, i) == SubSeq(s, i, i)

\* keywords and names are read without regard to case
RECURSIVE upper(_)
upper(s) ==
    IF Len(s) = 0 THEN ""
    ELSE LET c == char(s, 1)
             C == IF c \in LowerCase
                  THEN char("ABCDEFGHIJKLMNOPQRSTUVWXYZ",
                            CHOOSE i \in 1..Cardinality(LowerCase) :
                                char("abcdefghijklmnopqrstuvwxyz", i) = c)
                  ELSE c
         IN  C \o upper(SubSeq(s, 2, Len(s)))

\* the index of the quote that closes the quoted text running from s[k]
\* (a doubled quote is a quote inside the text), 0 if nothing closes it
RECURSIVE closing_quote(_, _)
closing_quote(s, k) ==
    IF k > Len(s) THEN 0
    ELSE IF char(s, k) # "\"" THEN closing_quote(s, k + 1)
    ELSE IF k < Len(s) /\ char(s, k + 1) = "\"" THEN closing_quote(s, k + 2)
    ELSE k

\* the text between the quotes, each doubled quote read as one
RECURSIVE unescape(_)
unescape(s) ==
    IF Len(s) = 0 THEN ""
    ELSE IF Len(s) >= 2 /\ SubSeq(s, 1, 2) = "\"\"" THEN "\"" \o unescape(SubSeq(s, 3, Len(s)))
    ELSE char(s, 1) \o unescape(SubSeq(s, 2, Len(s)))

\* the index where the run of characters of set that holds s[k] ends
RECURSIVE run_end(_, _, _)
run_end(s, k, set) ==
    IF k < Len(s) /\ char(s, k + 1) \in set THEN run_end(s, k + 1, set) ELSE k

Token(kind, text) == [kind |-> kind, text |-> text]

RECURSIVE tokens(_, _)
tokens(s, i) ==
    IF i > Len(s) THEN <<>>
    ELSE LET c == char(s, i)
             two == IF i < Len(s) THEN SubSeq(s, i, i + 1) ELSE c
         IN  IF c \in {" ", "\t", "\n", "\r"}
             THEN tokens(s, i + 1)
             ELSE IF c = "\""
             THEN LET j == closing_quote(s, i + 1)
                  IN  IF j = 0
                      THEN <<Token("unrecognized", SubSeq(s, i, Len(s)))>>
                      ELSE <<Token("quoted", unescape(SubSeq(s, i + 1, j - 1)))>> \o tokens(s, j + 1)
             ELSE IF c \in LowerCase \cup UpperCase \cup {"_"}
             THEN LET j == run_end(s, i, LowerCase \cup UpperCase \cup Digits \cup {"_"})
                  IN  <<Token("word", upper(SubSeq(s, i, j)))>> \o tokens(s, j + 1)
             ELSE IF c \in Digits
             THEN LET j == run_end(s, i, Digits)
                  IN  IF j < Len(s) /\ char(s, j + 1) \in LowerCase \cup UpperCase \cup {"_"}
                      THEN <<Token("unrecognized", SubSeq(s, i, Len(s)))>>
                      ELSE IF j < Len(s) /\ char(s, j + 1) = "."
                      THEN <<Token("other", SubSeq(s, i, Len(s)))>>
                      ELSE <<Token("number", SubSeq(s, i, j))>> \o tokens(s, j + 1)
             ELSE IF two \in {"<=", ">=", "==", "!=", "<>"}
             THEN <<Token("operator", two)>> \o tokens(s, i + 2)
             ELSE IF c \in {"<", ">", "="}
             THEN <<Token("operator", c)>> \o tokens(s, i + 1)
             ELSE IF c = ";"
             THEN <<Token("semicolon", c)>> \o tokens(s, i + 1)
             ELSE <<Token("other", c)>> \o tokens(s, i + 1)

(***************************************************************************)
(* The WHERE clause as sqlite evaluates it on a row of the view: OR binds  *)
(* weaker than AND, AND weaker than a comparison; a comparison is unknown  *)
(* when an operand is NULL and a row is selected when the clause is true.  *)
(* Clauses with a token of kind "other", another keyword, a chain of       *)
(* comparisons or text after the semicolon are outside what is modelled.   *)
(***************************************************************************)
ViewColumns == {"material", "category"} \cup PropertyColumnSet

OtherKeywords ==
    {"NOT", "IS", "IN", "LIKE", "GLOB", "BETWEEN", "ISNULL", "NOTNULL", "CASE", "EXISTS",
     "SELECT", "ORDER", "GROUP", "LIMIT", "UNION", "COLLATE", "REGEXP", "MATCH", "CAST"}

\* the names of the columns, read without regard to case
ViewColumnNames == [c \in ViewColumns |-> upper(c)]

\* the column a name denotes, if any
column_named(text) == {c \in ViewColumns : ViewColumnNames[c] = upper(text)}

\* the printable characters in the order of their codes (all but the grave
\* accent, which comes between _ and a)
Ascii ==
    " !\"#$%&'()*+,-./0123456789:;<=>?@ABCDEFGHIJKLMNOPQRSTUVWXYZ[\\]^_abcdefghijklmnopqrstuvwxyz{|}~"

code(c) == CHOOSE i \in 1..Len(Ascii) : char(Ascii, i) = c

\* a sorts before b byte by byte
RECURSIVE text_less(_, _)
text_less(a, b) ==
    IF Len(b) = 0 THEN FALSE
    ELSE IF Len(a) = 0 THEN TRUE
    ELSE IF char(a, 1) # char(b, 1) THEN code(char(a, 1)) < code(char(b, 1))
    ELSE text_less(SubSeq(a, 2, Len(a)), SubSeq(b, 2, Len(b)))

\* the number a run of digits denotes
RECURSIVE to_integer(_)
to_integer(digits) ==
    IF Len(digits) = 0 THEN 0
    ELSE to_integer(SubSeq(digits, 1, Len(digits) - 1)) * Cardinality(Digits)
         + (code(char(digits, Len(digits))) - code("0"))

\* the digits of a number n >= 0
RECURSIVE to_text(_)
to_text(n) ==
    LET digit == char(Ascii, code("0") + (n % Cardinality(Digits)))
    IN  IF n < Cardinality(Digits) THEN digit ELSE to_text(n \div Cardinality(Digits)) \o digit

RECURSIVE strip_blanks(_)
strip_blanks(s) ==
    IF Len(s) > 0 /\ char(s, 1) = " " THEN strip_blanks(SubSeq(s, 2, Len(s)))
    ELSE IF Len(s) > 0 /\ char(s, Len(s)) = " " THEN strip_blanks(SubSeq(s, 1, Len(s) - 1))
    ELSE s

\* NUMERIC affinity applied to a value: text that reads as a whole number
\* (blanks around it do not count) becomes that number
numeric_affinity(v) ==
    IF v.type # "text" THEN v
    ELSE LET t == strip_blanks(v.text)
         IN  IF Len(t) > 0 /\ \A i \in 1..Len(t) : char(t, i) \in Digits
             THEN INTEGER(to_integer(t))
             ELSE v

\* TEXT affinity applied to a value: a number becomes its text
text_affinity(v) ==
    IF v.type \in {"integer", "real"} THEN TEXT(to_text(v.num)) ELSE v

\* the value and the affinity of one operand on a row
operand(t, row) ==
    LET cs == IF t.kind \in {"word", "quoted"} THEN column_named(t.text) ELSE {}
        c == CHOOSE x \in cs : TRUE
    IN  IF cs # {}
        THEN \* a column; double-quoted text that names one is read as that column
             IF c \in {"material", "category"}
             THEN [value |-> TEXT(row[c]), affinity |-> "text"]
             ELSE [value |-> row[c], affinity |-> "integer"]
        ELSE IF t.kind = "quoted" THEN [value |-> TEXT(t.text), affinity |-> "none"]
        ELSE IF t.kind = "number" THEN [value |-> INTEGER(to_integer(t.text)), affinity |-> "none"]
        ELSE [value |-> NULL, affinity |-> "none"]

\* NULL, then numbers by value, then text byte by byte
value_less(a, b) ==
    IF a.type = "null" \/ b.type = "null" THEN a.type = "null" /\ b.type # "null"
    ELSE IF a.type = "text" /\ b.type = "text" THEN text_less(a.text, b.text)
    ELSE IF a.type = "text" THEN FALSE
    ELSE IF b.type = "text" THEN TRUE
    ELSE a.num < b.num

compare(op, l, r) ==
    LET a == IF r.affinity = "integer" /\ l.affinity # "integer" THEN numeric_affinity(l.value)
             ELSE IF r.affinity = "text" /\ l.affinity = "none" THEN text_affinity(l.value)
             ELSE l.value
        b == IF l.affinity = "integer" /\ r.affinity # "integer" THEN numeric_affinity(r.value)
             ELSE IF l.affinity = "text" /\ r.affinity = "none" THEN text_affinity(r.value)
             ELSE r.value
        less == value_less(a, b)
        more == value_less(b, a)
        holds == CASE op = "<" -> less
                   [] op = "<=" -> ~more
                   [] op = ">" -> more
                   [] op = ">=" -> ~less
                   [] op \in {"=", "=="} -> ~less /\ ~more
                   [] op \in {"!=", "<>"} -> less \/ more
    IN  IF a.type = "null" \/ b.type = "null" THEN "null"
        ELSE IF holds THEN "true" ELSE "false"

\* the runs of tokens between the keywords kw
RECURSIVE split(_, _)
split(toks, kw) ==
    LET at == {i \in DOMAIN toks : toks[i] = Token("word", kw)}
        i == CHOOSE x \in at : \A y \in at : x <= y
    IN  IF at = {} THEN <<toks>>
        ELSE <<SubSeq(toks, 1, i - 1)>> \o split(SubSeq(toks, i + 1, Len(toks)), kw)

\* for each run between ORs, its comparisons between ANDs
comparisons(toks) ==
    LET ors == split(toks, "OR") IN [i \in DOMAIN ors |-> split(ors[i], "AND")]

is_operand(t) == t.kind \in {"quoted", "number", "word"}

\* operand, or operand operator operand
well_formed(atom) ==
    \/ Len(atom) = 1 /\ is_operand(atom[1])
    \/ Len(atom) = 3 /\ is_operand(atom[1]) /\ atom[2].kind = "operator" /\ is_operand(atom[3])

\* operand operator operand operator operand ...
chain(atom) ==
    /\ Len(atom) >= 5
    /\ \A i \in DOMAIN atom :
         IF i % 2 = 1 THEN is_operand(atom[i]) ELSE atom[i].kind = "operator"

\* what preparing the statement raises
prepare(toks) ==
    LET semicolons == {i \in DOMAIN toks : toks[i].kind = "semicolon"}
        end == IF semicolons = {} THEN Len(toks) + 1
               ELSE CHOOSE x \in semicolons : \A y \in semicolons : x <= y
        clause == SubSeq(toks, 1, end - 1)
        parts == comparisons(clause)
        atoms == {parts[i][j] : <<i, j>> \in
                    {ij \in (DOMAIN parts) \X (1..(Len(clause) + 1)) : ij[2] \in DOMAIN parts[ij[1]]}}
        names == {atom[i] : <<atom, i>> \in
                    {ai \in atoms \X (DOMAIN clause) :
                        ai[2] \in DOMAIN ai[1] /\ ai[1][ai[2]].kind = "word"}}
    IN  IF \E i \in DOMAIN toks : toks[i].kind = "unrecognized"
        THEN "OperationalError"
        ELSE IF \E i \in DOMAIN clause :
                    \/ clause[i].kind = "other"
                    \/ clause[i].kind = "word" /\ clause[i].text \in OtherKeywords
        THEN "NotModelled"
        ELSE IF \E atom \in atoms : ~well_formed(atom) /\ ~chain(atom)
        THEN \* syntax error; the clause of no filter at all is one
             "OperationalError"
        ELSE IF \E atom \in atoms : chain(atom)
        THEN "NotModelled"
        ELSE IF \E t \in names : column_named(t.text) = {} /\ t.text # "NULL"
        THEN \* no such column
             "OperationalError"
        ELSE IF end < Len(toks)
        THEN "NotModelled"
        ELSE "none"

\* a value taken as a condition: a number other than 0, text by the digits
\* it starts with
truth_of(v) ==
    IF v.type = "null" THEN "null"
    ELSE IF v.type = "text"
    THEN LET t == strip_blanks(v.text)
         IN  IF Len(t) > 0 /\ char(t, 1) \in Digits
                /\ to_integer(SubSeq(t, 1, run_end(t, 1, Digits))) # 0
             THEN "true" ELSE "false"
    ELSE IF v.num # 0 THEN "true" ELSE "false"

atom_truth(atom, row) ==
    IF Len(atom) = 1 THEN truth_of(operand(atom[1], row).value)
    ELSE compare(atom[2].text, operand(atom[1], row), operand(atom[3], row))

all_of(truths) ==
    IF "false" \in truths THEN "false" ELSE IF "null" \in truths THEN "null" ELSE "true"

any_of(truths) ==
    IF "true" \in truths THEN "true" ELSE IF "null" \in truths THEN "null" ELSE "false"

where_truth(parts, row) ==
    any_of({ all_of({atom_truth(parts[i][j], row) : j \in DOMAIN parts[i]}) : i \in DOMAIN parts })

\* Filter.__str__
Filter_str(f) == f.column \o " " \o f.operator \o " \"" \o f.value \o "\""

\* SELECT * FROM properties WHERE <the filters joined by AND>;  The rows
\* come in no stated order: the result is given as their set.
get_filtered_entries(db, dsk, fs) ==
    LET where == join([i \in DOMAIN fs |-> Filter_str(fs[i])], " AND ") \o ";"
        toks == tokens(where, 1)
        raised == prepare(toks)
        parts == comparisons(SubSeq(toks, 1, Len(toks) - 1))
    IN  IF raised # "none"
        THEN [Outcome(db, dsk) EXCEPT !.raised = raised, !.returned = "-"]
        ELSE [Outcome(db, dsk) EXCEPT !.returned = "rows",
                  !.row = {r \in properties_view(db) : where_truth(parts, r) = "true"}]

(***************************************************************************)
(* The view category_summaries                                             *)
(***************************************************************************)
\* the number avg() takes a value for: text counts by the digits it starts
\* with, so text without any counts as 0
number_of(v) ==
    IF v.type = "text"
    THEN LET t == strip_blanks(v.text)
         IN  IF Len(t) > 0 /\ char(t, 1) \in Digits
             THEN to_integer(SubSeq(t, 1, run_end(t, 1, Digits)))
             ELSE 0
    ELSE v.num

RECURSIVE sum(_)
sum(values) ==
    IF values = {} THEN 0
    ELSE LET v == CHOOSE x \in values : TRUE
         IN  number_of(v.value) + sum(values \ {v})

\* the quotient sum / count
QUOTIENT(s, n) == [type |-> "real", sum |-> s, count |-> n]

\* avg(column) over the rows of a group: NULL is left out, every other value
\* counts; NULL if nothing counts
avg(rows, column) ==
    LET values == {[material |-> r.material, value |-> r[column]] :
                      r \in {x \in rows : x[column].type # "null"}}
    IN  IF values = {} THEN NULL ELSE QUOTIENT(sum(values), Cardinality(values))

\* IFNULL(x, "")
IFNULL(x, y) == IF x.type = "null" THEN y ELSE x

\* one row per category of material_categories, LEFT JOINed with the view
\* properties, in the order of material_category_id
category_summaries(db) ==
    [i \in DOMAIN DEFUALT_MATERIAL_CATEGORIES |->
        LET group == {r \in properties_view(db) : r.category = DEFUALT_MATERIAL_CATEGORIES[i]}
        IN  [c \in {"category", "materials"} \cup PropertyColumnSet |->
                IF c = "category" THEN DEFUALT_MATERIAL_CATEGORIES[i]
                ELSE IF c = "materials" THEN Cardinality(group)
                ELSE IFNULL(avg(group, c), TEXT(""))]]

\* SELECT * FROM category_summaries
get_category_summaries(db, dsk) ==
    [Outcome(db, dsk) EXCEPT !.returned = "rows", !.rows = category_summaries(db)]

(***************************************************************************)
(* SELECT * FROM properties ORDER BY <order_by> ASC | DESC                 *)
(***************************************************************************)
\* the value of a column in a row of the view
column_value(row, column) ==
    IF column \in {"material", "category"} THEN TEXT(row[column]) ELSE row[column]

\* row a goes before row b
goes_before(a, b, column, descending) ==
    IF descending
    THEN value_less(column_value(b, column), column_value(a, column))
    ELSE value_less(column_value(a, column), column_value(b, column))

\* the sorter: a row is put in front of the first row it goes before, so
\* rows with equal values keep the order in which they were read
order_by_insert(sorted, row, column, descending) ==
    LET after == {i \in DOMAIN sorted : goes_before(row, sorted[i], column, descending)}
        at == IF after = {} THEN Len(sorted) + 1
              ELSE CHOOSE i \in after : \A j \in after : i <= j
    IN  SubSeq(sorted, 1, at - 1) \o <<row>> \o SubSeq(sorted, at, Len(sorted))

RECURSIVE order_by_sort(_, _, _)
order_by_sort(read, column, descending) ==
    IF Len(read) = 0 THEN <<>>
    ELSE order_by_insert(order_by_sort(SubSeq(read, 1, Len(read) - 1), column, descending),
                         read[Len(read)], column, descending)

\* the orders in which the rows of the view can be read
read_orders(db) ==
    LET rows == properties_view(db)
        n == Cardinality(rows)
    IN  {read \in [1..n -> rows] : \A i, j \in 1..n : read[i] = read[j] => i = j}

\* get_all_entries(order_by, descending), the rows of the view read in the
\* order read.  order_by is pasted into the query text: a name that is no
\* column of the view raises, other text is outside what is modelled.
get_all_entries(db, dsk, order_by, descending, read) ==
    LET toks == tokens(order_by, 1)
        columns == IF Len(toks) = 1 /\ toks[1].kind \in {"word", "quoted"}
                   THEN column_named(toks[1].text) ELSE {}
    IN  IF columns # {}
        THEN [Outcome(db, dsk) EXCEPT !.returned = "rows",
                  !.rows = order_by_sort(read, CHOOSE c \in columns : TRUE, descending)]
        ELSE IF Len(toks) = 0 \/ (Len(toks) = 1 /\ toks[1].kind \in {"word", "unrecognized"})
        THEN [Outcome(db, dsk) EXCEPT !.raised = "OperationalError", !.returned = "-"]
        ELSE [Outcome(db, dsk) EXCEPT !.raised = "NotModelled", !.returned = "-"]

(***************************************************************************)
(* MaterialsDatabaseEditor: the commands of the "Edit Database" menu       *)
(***************************************************************************)
INVALID_VALUE_MESSAGE == "Invalid value"
NAME_EXISTS_MESSAGE == "A material with that name already exists..."

\* str.strip() on the lines entered
strip(line) == IF line \in {"", " "} THEN "" ELSE line

\* __prompt_material_name raises ValueError on a blank line
prompt_material_name_raises(line) == strip(line) = ""

\* __prompt_properties: an empty line is kept as '', any other is float(line)
prompt_properties(lines) ==
    [i \in DOMAIN lines |-> IF lines[i] # "" THEN float(lines[i]).value ELSE TEXT("")]

prompt_properties_raises(lines) ==
    \E i \in DOMAIN lines : lines[i] # "" /\ float(lines[i]).raised = "ValueError"

\* add_material: ValueError from the prompts is caught and reported
editor_add_material(db, dsk, line, category, lines) ==
    IF prompt_material_name_raises(line) \/ prompt_properties_raises(lines)
    THEN [Outcome(db, dsk) EXCEPT !.printed = INVALID_VALUE_MESSAGE]
    ELSE add_entry(db, dsk, line, category, prompt_properties(lines))

\* update_material(material): IntegrityError is caught and reported, any
\* other exception of update_entry leaves the method; the material returned
\* is the updated one if update_entry returned a row
editor_update_material(db, dsk, material, column, new_value) ==
    LET u == update_entry(db, dsk, material.material, column, new_value)
    IN  IF u.raised = "IntegrityError"
        THEN [u EXCEPT !.raised = "none", !.printed = NAME_EXISTS_MESSAGE,
                       !.returned = "Row", !.row = {material}]
        ELSE IF u.raised = "none" /\ u.row = {}
        THEN [u EXCEPT !.returned = "Row", !.row = {material}]
        ELSE u

(***************************************************************************)
(* State                                                                   *)
(***************************************************************************)
VARIABLES
    materials,               \* rows of table materials seen by the connection
    mechanical_properties,   \* rows of table mechanical_properties seen by it
    disk,                    \* the committed tables, as stored in the file
    selected,                \* edit_database: the material being edited, or {}
    filters,                 \* MaterialsDatabase.__filters, a list of Filter objects
    last,                    \* the last call: its arguments and its outcome
    ops,                     \* number of calls made
    menu,                    \* "opened": a store is open; "main": command_line's menu
    created                  \* the database file exists

vars == <<materials, mechanical_properties, disk, selected, filters, last, ops, menu, created>>

\* Arguments the calls are made with.
Names == {"Al", "Cu"}
CategoryArguments == {"Metal", "Polymer", "Wood"}
Values == {"", " 2", "x"}
Columns == {"material", "category"} \cup PropertyColumnSet
PropertyLists ==
    { <<NULL, NULL, NULL, NULL, NULL, NULL>>,
      <<REAL(1), REAL(2), TEXT(""), NULL, REAL(2), TEXT("")>>,
      <<REAL(1), REAL(2), REAL(1), REAL(2), REAL(1)>> }

\* Lines typed at the editor's prompts.
NameLines == {"", " ", "Al", "Cu"}
CategorySelections == {"Metal", "Polymer"}
PropertyLines ==
    { <<"", "", "", "", "", "">>,
      <<"1", " 2", "", "1", " 2", "">>,
      <<"1", "x", "", "", "", "">> }

NoCall ==
    [op |-> "none", name |-> "", category |-> "", properties |-> <<>>, column |-> "",
     value |-> "", raised |-> "none", printed |-> "", returned |-> "-", row |-> {},
     rowcount |-> 0, operator |-> "", descending |-> FALSE, rows |-> <<>>,
     filter |-> {}, message |-> "", query |-> ""]

\* The connection's view of the tables.
connection == [materials |-> materials, mechanical_properties |-> mechanical_properties]

\* create_database followed by MaterialsDatabase(filename): empty tables,
\* seeded categories, nothing pending.
Init ==
    /\ materials = {}
    /\ mechanical_properties = {}
    /\ disk = [materials |-> {}, mechanical_properties |-> {}]
    /\ selected = {}
    /\ filters = <<>>
    /\ last = NoCall
    /\ ops = 0
    /\ menu = "opened"
    /\ created = TRUE

\* The call `call' is made and has the outcome `out'.
Call(call, out) ==
    /\ ops < MaxOps
    /\ ops' = ops + 1
    /\ materials' = out.db.materials
    /\ mechanical_properties' = out.db.mechanical_properties
    /\ disk' = out.disk
    /\ last' = [call EXCEPT !.raised = out.raised, !.printed = out.printed,
                            !.returned = out.returned, !.row = out.row,
                            !.rowcount = out.rowcount, !.rows = out.rows,
                            !.message = out.message, !.query = out.query]

\* A call on the open store: no file is created, no menu is left.
Do(call, out) == Call(call, out) /\ UNCHANGED <<menu, created>>

(***************************************************************************)
(* Calls of the MaterialsDatabase methods                                  *)
(***************************************************************************)
AddEntry ==
    \E name \in Names, category \in CategoryArguments, props \in PropertyLists :
        /\ Do([NoCall EXCEPT !.op = "add_entry", !.name = name,
                             !.category = category, !.properties = props],
              add_entry(connection, disk, name, category, props))
        /\ UNCHANGED <<selected, filters>>

UpdateEntry ==
    \E name \in Names, column \in Columns :
        \E value \in (CASE column = "material" -> Names
                        [] column = "category" -> CategoryArguments
                        [] OTHER -> Values) :
            /\ Do([NoCall EXCEPT !.op = "update_entry", !.name = name,
                                 !.column = column, !.value = value],
                  update_entry(connection, disk, name, column, value))
            /\ UNCHANGED <<selected, filters>>

DeleteMaterial ==
    \E name \in Names :
        /\ Do([NoCall EXCEPT !.op = "delete_material", !.name = name],
              delete_material(connection, disk, name))
        /\ UNCHANGED <<selected, filters>>

Next == AddEntry \/ UpdateEntry \/ DeleteMaterial

Spec == Init /\ [][Next]_vars

(***************************************************************************)
(* MaterialsDatabaseEditor: filters and displays.  A list of rows given to *)
(* display_materials is a sequence whose items are {row}, or {} for None.  *)
(***************************************************************************)
NO_MATERIALS_MESSAGE == "No Materials..."
NO_FILTERS_MESSAGE == "No filters to remove..."

\* editor add_filter: no operator is asked for material and category;
\* InvalidOperator is caught and its message printed
editor_add_filter(fs, column, value, typed, id) ==
    LET operator == IF column \notin {"material", "category"} THEN typed ELSE "="
        out == add_filter(fs, column, value, operator, id)
    IN  IF out.raised = "InvalidOperator"
        THEN \* print(e)
             [raised |-> "none", message |-> "", filters |-> out.filters, printed |-> out.message]
        ELSE [raised |-> out.raised, message |-> out.message, filters |-> out.filters, printed |-> ""]

\* editor remove_filter: the filter picked from the list shown, if there is one
editor_remove_filter(fs, selection) ==
    IF Len(fs) > 0
    THEN LET out == remove_filter(fs, fs[selection])
         IN  [raised |-> out.raised, message |-> out.message, filters |-> out.filters, printed |-> ""]
    ELSE [raised |-> "none", message |-> "", filters |-> fs, printed |-> NO_FILTERS_MESSAGE]

\* display_materials(materials): the table of the rows (given by rows), or
\* the message; materials[0].keys() raises AttributeError on None
display_materials(out, listed) ==
    IF Len(listed) = 0
    THEN [out EXCEPT !.printed = NO_MATERIALS_MESSAGE, !.returned = "None", !.rows = <<>>]
    ELSE IF listed[1] = {}
    THEN [out EXCEPT !.raised = "AttributeError", !.returned = "-", !.rows = <<>>]
    ELSE [out EXCEPT !.returned = "None",
                     !.rows = [i \in DOMAIN listed |-> CHOOSE r \in listed[i] : TRUE]]

\* a list of the rows of a set
as_list(rows) ==
    CHOOSE list \in [1..Cardinality(rows) -> rows] :
        \A i, j \in DOMAIN list : list[i] = list[j] => i = j

\* display_all_materials: get_all_entries() with its defaults
display_all_materials(db, dsk, read) ==
    LET q == get_all_entries(db, dsk, "material", FALSE, read)
    IN  display_materials([q EXCEPT !.query = "get_all_entries"],
                          [i \in DOMAIN q.rows |-> {q.rows[i]}])

\* Faulty variant of display_filtered_materials: the filtered query is run
\* whether or not there are filters.
display_filtered_materials_unchecked(db, dsk, fs, read) ==
    LET q == get_filtered_entries(db, dsk, fs)
        list == as_list(q.row)
    IN  IF q.raised # "none" THEN [q EXCEPT !.query = "get_filtered_entries"]
        ELSE display_materials([q EXCEPT !.query = "get_filtered_entries", !.row = {}],
                               [i \in DOMAIN list |-> {list[i]}])

\* display_filtered_materials: the filtered query if get_filters() is not
\* empty, else display_all_materials
display_filtered_materials(db, dsk, fs, read) ==
    LET q == get_filtered_entries(db, dsk, fs)
        list == as_list(q.row)
    IN  IF Len(fs) = 0 THEN display_all_materials(db, dsk, read)
        ELSE IF q.raised # "none" THEN [q EXCEPT !.query = "get_filtered_entries"]
        ELSE display_materials([q EXCEPT !.query = "get_filtered_entries", !.row = {}],
                               [i \in DOMAIN list |-> {list[i]}])

\* display_material: the name prompted (ValueError on a blank line), then
\* display_materials([material]) with the row found, or None
display_material(db, dsk, line) ==
    IF prompt_material_name_raises(line)
    THEN [Outcome(db, dsk) EXCEPT !.raised = "ValueError", !.returned = "-"]
    ELSE display_materials([Outcome(db, dsk) EXCEPT !.query = "get_entry_by_material"],
                           <<get_entry_by_material(db, line)>>)

\* display_sorted_materials: the column picked, and descending if the answer
\* to 'Ascending (Y/n): ' starts with n or N; no answer keeps the default
display_sorted_materials(db, dsk, column, response, read) ==
    LET descending == IF Len(response) = 0 THEN FALSE ELSE upper(char(response, 1)) = "N"
        q == get_all_entries(db, dsk, column, descending, read)
    IN  display_materials([q EXCEPT !.query = "get_all_entries"],
                          [i \in DOMAIN q.rows |-> {q.rows[i]}])

\* display_category_summaries
display_category_summaries(db, dsk) ==
    LET q == get_category_summaries(db, dsk)
    IN  display_materials([q EXCEPT !.query = "get_category_summaries"],
                          [i \in DOMAIN q.rows |-> {q.rows[i]}])

(***************************************************************************)
(* command_line: the main menu.  exists tells whether the file named is    *)
(* there, dsk is what it holds.                                            *)
(***************************************************************************)
DOES_NOT_EXIST_MESSAGE == "does not currently exist..."

\* MaterialsDatabase.create_database(filename): CREATE TABLE materials
\* raises OperationalError in a file that has the table
create_database(exists, dsk) ==
    IF exists
    THEN [Outcome(dsk, dsk) EXCEPT !.raised = "OperationalError", !.returned = "-"]
    ELSE Outcome([materials |-> {}, mechanical_properties |-> {}],
                 [materials |-> {}, mechanical_properties |-> {}])

\* MaterialsDatabaseEditor(filename): connect with mode=rw raises
\* OperationalError if the file is not there; command_line catches it
open_existing_database(exists, dsk) ==
    IF exists
    THEN [Outcome(dsk, dsk) EXCEPT !.returned = "editor"]
    ELSE [Outcome(dsk, dsk) EXCEPT !.printed = DOES_NOT_EXIST_MESSAGE]

(***************************************************************************)
(* Commands of edit_database's "Edit Database" menu.  An exception that    *)
(* leaves an editor method ends the process: no command follows it.        *)
(***************************************************************************)
Running == last.raised = "none"

\* Add Material
EditorAddMaterial ==
    \E line \in NameLines, category \in CategorySelections, lines \in PropertyLines :
        /\ Running
        /\ selected = {}
        /\ Do([NoCall EXCEPT !.op = "editor.add_material", !.name = line,
                             !.category = category, !.properties = lines],
              editor_add_material(connection, disk, line, category, lines))
        /\ UNCHANGED <<selected, filters>>

\* Edit Material: select_entry (a blank line raises ValueError out of
\* edit_database; a name the view lacks is reported and nothing is selected)
EditorSelectEntry ==
    \E line \in NameLines :
        LET material == get_entry_by_material(connection, line)
            out == IF prompt_material_name_raises(line)
                   THEN [Outcome(connection, disk) EXCEPT !.raised = "ValueError", !.returned = "-"]
                   ELSE [Outcome(connection, disk) EXCEPT
                            !.returned = IF material = {} THEN "None" ELSE "Row",
                            !.row = material]
        IN  /\ Running
            /\ selected = {}
            /\ Do([NoCall EXCEPT !.op = "editor.select_entry", !.name = line], out)
            /\ selected' = out.row
            /\ UNCHANGED filters

\* Update Material, on the selected material
EditorUpdateMaterial ==
    \E material \in selected, column \in Columns :
        \E new_value \in (CASE column = "material" -> NameLines
                            [] column = "category" -> CategorySelections
                            [] OTHER -> Values) :
            LET out == editor_update_material(connection, disk, material, column, new_value)
            IN  /\ Running
                /\ Do([NoCall EXCEPT !.op = "editor.update_material", !.name = material.material,
                                     !.column = column, !.value = new_value], out)
                /\ selected' = out.row
                /\ UNCHANGED filters

\* Delete Material, on the selected material; the selection ends
EditorDeleteMaterial ==
    \E material \in selected :
        /\ Running
        /\ Do([NoCall EXCEPT !.op = "editor.delete_material", !.name = material.material],
              delete_material(connection, disk, material.material))
        /\ selected' = {}
        /\ UNCHANGED filters

\* Done, in the selected material's menu
EditorDone ==
    /\ Running
    /\ selected # {}
    /\ selected' = {}
    /\ UNCHANGED <<materials, mechanical_properties, disk, filters, last, ops, menu, created>>

NextEditor ==
    \/ EditorAddMaterial
    \/ EditorSelectEntry
    \/ EditorUpdateMaterial
    \/ EditorDeleteMaterial
    \/ EditorDone

SpecEditor == Init /\ [][NextEditor]_vars

(***************************************************************************)
(* An opened store with its filters and queries (MaterialsDatabase used    *)
(* as a library).  The store opened holds the entries some earlier run     *)
(* added and committed with add_entry.                                     *)
(***************************************************************************)
RECURSIVE stored(_)
stored(entries) ==
    IF Len(entries) = 0
    THEN [materials |-> {}, mechanical_properties |-> {}]
    ELSE LET before == stored(SubSeq(entries, 1, Len(entries) - 1))
             e == entries[Len(entries)]
         IN  add_entry(before, before, e.name, e.category, e.properties).disk

OpenedStores ==
    { stored(<<>>),
      stored(<< [name |-> "Al", category |-> "Metal",
                 properties |-> <<REAL(1), REAL(2), TEXT(""), NULL, REAL(2), TEXT("")>>],
                [name |-> "Cu", category |-> "Metal",
                 properties |-> <<REAL(2), REAL(2), REAL(1), NULL, NULL, TEXT("")>>],
                [name |-> "PE", category |-> "Polymer",
                 properties |-> <<NULL, REAL(1), TEXT(""), NULL, REAL(1), REAL(2)>>] >>) }

\* (column, value, operator) as given to add_filter
FilterArguments ==
    { [column |-> "category", value |-> "Metal", operator |-> "="],
      [column |-> "density", value |-> "2", operator |-> ">="],
      [column |-> "density", value |-> "x", operator |-> "<"],
      [column |-> "modulus_of_rigidity", value |-> "1", operator |-> ">"],
      [column |-> "ultimate_tensile_strength", value |-> "1", operator |-> "<="],
      [column |-> "density", value |-> "1\" OR \"1\"=\"1",
       operator |-> "="],
      [column |-> "density", value |-> "2", operator |-> "=="],
      [column |-> "density", value |-> "2", operator |-> "!="] }

\* a Filter the caller constructed and never added
UnaddedFilter == CHOOSE f \in Filter("density", "2", ">=", 0).object : TRUE

InitQuery ==
    /\ \E store \in OpenedStores :
         /\ materials = store.materials
         /\ mechanical_properties = store.mechanical_properties
         /\ disk = store
    /\ selected = {}
    /\ filters = <<>>
    /\ last = NoCall
    /\ ops = 0
    /\ menu = "opened"
    /\ created = TRUE

FilterCall(call, out) ==
    /\ Do(call, [Outcome(connection, disk) EXCEPT !.raised = out.raised, !.message = out.message,
                                                  !.returned = IF out.raised = "none" THEN "None" ELSE "-"])
    /\ filters' = out.filters
    /\ UNCHANGED selected

AddFilter ==
    \E a \in FilterArguments :
        FilterCall([NoCall EXCEPT !.op = "add_filter", !.column = a.column, !.value = a.value,
                                  !.operator = a.operator],
                   add_filter(filters, a.column, a.value, a.operator, ops + 1))

RemoveFilter ==
    \E filter \in {filters[i] : i \in DOMAIN filters} \cup {UnaddedFilter} :
        FilterCall([NoCall EXCEPT !.op = "remove_filter", !.filter = {filter}],
                   remove_filter(filters, filter))

ClearFilters ==
    FilterCall([NoCall EXCEPT !.op = "clear_filters"], clear_filters(filters))

\* the record operations on the opened store
StoreAddEntry ==
    \E props \in { <<REAL(2), NULL, REAL(1), NULL, NULL, NULL>>,
                   <<REAL(1), REAL(2), REAL(1), REAL(2), REAL(1)>> } :
        /\ Do([NoCall EXCEPT !.op = "add_entry", !.name = "Zn", !.category = "Metal",
                             !.properties = props],
              add_entry(connection, disk, "Zn", "Metal", props))
        /\ UNCHANGED <<selected, filters>>

StoreUpdateEntry ==
    \E value \in {"", " 2"} :
        /\ Do([NoCall EXCEPT !.op = "update_entry", !.name = "Al", !.column = "density",
                             !.value = value],
              update_entry(connection, disk, "Al", "density", value))
        /\ UNCHANGED <<selected, filters>>

StoreDeleteMaterial ==
    /\ Do([NoCall EXCEPT !.op = "delete_material", !.name = "Cu"],
          delete_material(connection, disk, "Cu"))
    /\ UNCHANGED <<selected, filters>>

GetFilteredEntries ==
    /\ Do([NoCall EXCEPT !.op = "get_filtered_entries"],
          get_filtered_entries(connection, disk, filters))
    /\ UNCHANGED <<selected, filters>>

GetCategorySummaries ==
    /\ Do([NoCall EXCEPT !.op = "get_category_summaries"],
          get_category_summaries(connection, disk))
    /\ UNCHANGED <<selected, filters>>

\* (order_by, descending) as given to get_all_entries
OrderArguments ==
    { [order_by |-> "material", descending |-> FALSE],
      [order_by |-> "density", descending |-> TRUE],
      [order_by |-> "modulus_of_rigidity", descending |-> FALSE],
      [order_by |-> "modulus_of_rigidity", descending |-> TRUE],
      [order_by |-> "weight", descending |-> FALSE] }

GetAllEntries ==
    \E a \in OrderArguments, read \in read_orders(connection) :
        /\ Do([NoCall EXCEPT !.op = "get_all_entries", !.column = a.order_by,
                             !.descending = a.descending],
              get_all_entries(connection, disk, a.order_by, a.descending, read))
        /\ UNCHANGED <<selected, filters>>

NextQuery ==
    \/ AddFilter \/ RemoveFilter \/ ClearFilters
    \/ GetFilteredEntries \/ GetCategorySummaries \/ GetAllEntries
    \/ StoreAddEntry \/ StoreUpdateEntry \/ StoreDeleteMaterial

SpecQuery == InitQuery /\ [][NextQuery]_vars

(***************************************************************************)
(* The filter menu of edit_database ("Display Filtered Materials"), on an  *)
(* opened store.                                                           *)
(***************************************************************************)
EditorFilterCall(call, out) ==
    /\ Running
    /\ Do(call, [Outcome(connection, disk) EXCEPT !.raised = out.raised, !.message = out.message,
                                                  !.printed = out.printed,
                                                  !.returned = IF out.raised = "none" THEN "None" ELSE "-"])
    /\ filters' = out.filters
    /\ UNCHANGED selected

\* Add filter
EditorAddFilter ==
    \E a \in FilterArguments :
        EditorFilterCall([NoCall EXCEPT !.op = "editor.add_filter", !.column = a.column,
                                        !.value = a.value, !.operator = a.operator],
                         editor_add_filter(filters, a.column, a.value, a.operator, ops + 1))

\* Remove Filter
EditorRemoveFilter ==
    \E selection \in IF Len(filters) = 0 THEN {0} ELSE DOMAIN filters :
        EditorFilterCall([NoCall EXCEPT !.op = "editor.remove_filter", !.rowcount = selection],
                         editor_remove_filter(filters, selection))

\* Clear Filters
EditorClearFilters ==
    EditorFilterCall([NoCall EXCEPT !.op = "editor.clear_filters"],
                     [raised |-> "none", message |-> "", printed |-> "",
                      filters |-> clear_filters(filters).filters])

\* Apply Filters
DisplayFilteredMaterials ==
    \E read \in read_orders(connection) :
        /\ Running
        /\ Do([NoCall EXCEPT !.op = "editor.display_filtered_materials"],
              display_filtered_materials(connection, disk, filters, read))
        /\ UNCHANGED <<selected, filters>>

NextFilterMenu ==
    \/ EditorAddFilter \/ EditorRemoveFilter \/ EditorClearFilters
    \/ DisplayFilteredMaterials

SpecFilterMenu == InitQuery /\ [][NextFilterMenu]_vars

(***************************************************************************)
(* command_line: the main menu and, once a database is opened, the         *)
(* commands of edit_database.  An exception that leaves command_line ends  *)
(* the process.                                                            *)
(***************************************************************************)
InitCommandLine ==
    /\ menu = "main"
    /\ created \in BOOLEAN
    /\ \E store \in OpenedStores :
         /\ created \/ store = stored(<<>>)
         /\ materials = store.materials
         /\ mechanical_properties = store.mechanical_properties
         /\ disk = store
    /\ selected = {}
    /\ filters = <<>>
    /\ last = NoCall
    /\ ops = 0

\* Create New Database
CreateNewDatabase ==
    LET out == create_database(created, disk)
    IN  /\ Running
        /\ menu = "main"
        /\ Call([NoCall EXCEPT !.op = "create_database"], out)
        /\ created' = TRUE
        /\ UNCHANGED <<menu, selected, filters>>

\* Open Existing Database
OpenExistingDatabase ==
    LET out == open_existing_database(created, disk)
    IN  /\ Running
        /\ menu = "main"
        /\ Call([NoCall EXCEPT !.op = "open_existing_database"], out)
        /\ menu' = IF out.returned = "editor" THEN "opened" ELSE "main"
        /\ filters' = <<>>
        /\ UNCHANGED <<selected, created>>

\* Done, in the menu of the database: back in the main menu; what its
\* connection had pending is not committed
DatabaseDone ==
    /\ Running
    /\ menu = "opened"
    /\ selected = {}
    /\ menu' = "main"
    /\ materials' = disk.materials
    /\ mechanical_properties' = disk.mechanical_properties
    /\ filters' = <<>>
    /\ UNCHANGED <<disk, selected, last, ops, created>>

\* Display All Materials
DisplayAllMaterials ==
    \E read \in read_orders(connection) :
        /\ Running
        /\ Do([NoCall EXCEPT !.op = "editor.display_all_materials"],
              display_all_materials(connection, disk, read))
        /\ UNCHANGED <<selected, filters>>

\* Display Material
DisplayMaterial ==
    \E line \in NameLines :
        /\ Running
        /\ Do([NoCall EXCEPT !.op = "editor.display_material", !.name = line],
              display_material(connection, disk, line))
        /\ UNCHANGED <<selected, filters>>

\* Display Sorted Materials
DisplaySortedMaterials ==
    \E column \in {"category", "density"}, response \in {"", "n"},
       read \in read_orders(connection) :
        /\ Running
        /\ Do([NoCall EXCEPT !.op = "editor.display_sorted_materials", !.column = column,
                             !.value = response],
              display_sorted_materials(connection, disk, column, response, read))
        /\ UNCHANGED <<selected, filters>>

\* Display Category Summaries
DisplayCategorySummaries ==
    /\ Running
    /\ Do([NoCall EXCEPT !.op = "editor.display_category_summaries"],
          display_category_summaries(connection, disk))
    /\ UNCHANGED <<selected, filters>>

NextCommandLine ==
    \/ CreateNewDatabase
    \/ OpenExistingDatabase
    \/ DatabaseDone
    \/ menu = "opened" /\ selected = {} /\ DisplayAllMaterials
    \/ menu = "opened" /\ selected = {} /\ DisplayMaterial
    \/ menu = "opened" /\ selected = {} /\ DisplaySortedMaterials
    \/ menu = "opened" /\ selected = {} /\ DisplayCategorySummaries
    \/ menu = "opened" /\ selected = {} /\ EditorAddFilter
    \/ menu = "opened" /\ selected = {} /\ EditorRemoveFilter
    \/ menu = "opened" /\ selected = {} /\ EditorClearFilters
    \/ menu = "opened" /\ selected = {} /\ DisplayFilteredMaterials
    \/ menu = "opened" /\ EditorAddMaterial
    \/ menu = "opened" /\ EditorSelectEntry
    \/ menu = "opened" /\ EditorUpdateMaterial
    \/ menu = "opened" /\ EditorDeleteMaterial
    \/ menu = "opened" /\ EditorDone

SpecCommandLine == InitCommandLine /\ [][NextCommandLine]_vars

(***************************************************************************)
(* Properties                                                              *)
(***************************************************************************)
\* The step is a call of op (every call counts in ops and records itself).
Called(op) == ops' = ops + 1 /\ last'.op = op

MaterialNames(rows) == {r.material : r \in rows}

StoreUnchanged ==
    /\ materials' = materials
    /\ mechanical_properties' = mechanical_properties
    /\ disk' = disk

\* C1: add_entry with a name that is already in the materials table adds or
\* alters no row of materials or mechanical_properties (pending or
\* committed), prints the duplicate message and returns without raising.
C1_DuplicateAddLeavesStoreUnchanged ==
    [][(Called("add_entry") /\ last'.name \in MaterialNames(materials))
        => /\ StoreUnchanged
           /\ last'.raised = "none"
           /\ last'.printed = DUPLICATE_MESSAGE]_vars

\* A duplicate add was reported although the category given exists and the
\* property list is well formed, and the stored row differs from the arguments.
C1_Witness ==
    /\ last.op = "add_entry"
    /\ last.printed = DUPLICATE_MESSAGE
    /\ last.category \in material_categories
    /\ Len(last.properties) = Len(PROPERTY_COLUMNS)
    /\ \E r \in materials : r.material = last.name /\ r.category # last.category

\* C2: delete_material on an existing material returns True, removes its
\* materials row and its mechanical_properties row, a lookup by that name is
\* then absent, and the rows of every other material are unchanged.
C2_DeleteCascades ==
    [][(Called("delete_material") /\ last'.name \in MaterialNames(materials))
        => /\ last'.returned = "True"
           /\ last'.name \notin MaterialNames(materials')
           /\ last'.name \notin MaterialNames(mechanical_properties')
           /\ get_entry_by_material(connection', last'.name) = {}
           /\ {r \in materials' : r.material # last'.name} = {r \in materials : r.material # last'.name}
           /\ {r \in mechanical_properties' : r.material # last'.name}
                = {r \in mechanical_properties : r.material # last'.name}
           /\ disk' = connection']_vars

\* A material with a properties row was deleted while another one stays.
C2_Witness ==
    /\ last.op = "delete_material"
    /\ last.returned = "True"
    /\ last.name \notin MaterialNames(materials)
    /\ \E r \in properties_view(connection) : r.material # last.name

\* C3: renaming a material old that the view shows to a name new that no
\* material has: afterwards the lookup of old is absent and the lookup of new
\* is the row old had, with the same category and the same six values.
C3_RenameKeepsProperties ==
    [][(/\ Called("update_entry")
        /\ last'.column = "material"
        /\ get_entry_by_material(connection, last'.name) # {}
        /\ last'.value \notin MaterialNames(materials))
        => /\ get_entry_by_material(connection', last'.name) = {}
           /\ get_entry_by_material(connection', last'.value)
                = {[r EXCEPT !.material = last'.value] : r \in get_entry_by_material(connection, last'.name)}
           /\ last'.row = get_entry_by_material(connection', last'.value)]_vars

\* A material with a numeric value stored was renamed.
C3_Witness ==
    /\ last.op = "update_entry"
    /\ last.column = "material"
    /\ last.name # last.value
    /\ last.rowcount = 1
    /\ \E r \in get_entry_by_material(connection, last.value) : r.density.type = "integer"
    /\ get_entry_by_material(connection, last.name) = {}

\* C4: renaming old to the name of a different existing material raises
\* IntegrityError and leaves the rows of both (and the whole store) unchanged.
C4_RenameCollisionRaises ==
    [][(/\ Called("update_entry")
        /\ last'.column = "material"
        /\ last'.name \in MaterialNames(materials)
        /\ last'.value \in MaterialNames(materials)
        /\ last'.value # last'.name)
        => /\ last'.raised = "IntegrityError"
           /\ StoreUnchanged
           /\ \A n \in {last'.name, last'.value} :
                get_entry_by_material(connection', n) = get_entry_by_material(connection, n)]_vars

\* A rename collided with another material that has its own row in the view.
C4_Witness ==
    /\ last.op = "update_entry"
    /\ last.column = "material"
    /\ last.raised = "IntegrityError"
    /\ last.name # last.value
    /\ get_entry_by_material(connection, last.name) # {}
    /\ get_entry_by_material(connection, last.value) # {}

\* Every material has its mechanical_properties row (what every add_entry
\* that returns leaves behind).
OneToOne(db) == MaterialNames(db.materials) = MaterialNames(db.mechanical_properties)

\* C5: update_entry returns a row (success) if and only if the update
\* affected exactly one row, and returns None (not found) for every name
\* that is not an existing material, a rename to another material's name
\* included.  Stated for calls on a store in which every material has its
\* properties row, so that no earlier failed add_entry is involved.
C5_SuccessIffOneRowAffected ==
    [][(Called("update_entry") /\ last'.raised = "none" /\ OneToOne(connection))
        => /\ (last'.returned = "Row") <=> (last'.rowcount = 1)
           /\ last'.name \notin MaterialNames(materials) => last'.returned = "None"]_vars

\* C6: update_entry(name, column, '') on a numeric column of an existing
\* material stores NULL in that column and changes nothing else.
C6_EmptyStringClearsToNull ==
    [][(/\ Called("update_entry")
        /\ last'.column \in PropertyColumnSet
        /\ last'.value = ""
        /\ get_entry_by_material(connection, last'.name) # {})
        => /\ materials' = materials
           /\ mechanical_properties' =
                {IF p.material = last'.name THEN [p EXCEPT ![last'.column] = NULL] ELSE p :
                    p \in mechanical_properties}]_vars

\* C7: update_entry on a numeric column with a non-empty value that float()
\* does not accept raises ValueError and modifies no row of any table.
C7_UnparsableValueRaises ==
    [][(/\ Called("update_entry")
        /\ last'.column \in PropertyColumnSet
        /\ last'.value # ""
        /\ last'.value \notin DOMAIN FloatLiterals)
        => /\ last'.raised = "ValueError"
           /\ StoreUnchanged]_vars

\* An unparsable value was given for a property of a material in the view.
C7_Witness ==
    /\ last.op = "update_entry"
    /\ last.column \in PropertyColumnSet
    /\ last.value = "x"
    /\ last.raised = "ValueError"
    /\ get_entry_by_material(connection, last.name) # {}

C9_NamesUniqueAndNonEmpty ==
    \A rows \in {materials, disk.materials} :
        /\ \A r1, r2 \in rows : r1.material = r2.material => r1 = r2
        /\ \A r \in rows : r.material # ""

\* C10: every mechanical_properties row, pending or committed, has its
\* material in the materials table.
C10_NoOrphanProperties ==
    /\ MaterialNames(mechanical_properties) \subseteq MaterialNames(materials)
    /\ MaterialNames(disk.mechanical_properties) \subseteq MaterialNames(disk.materials)

\* A delete or a rename took place and properties rows are stored.
C10_Witness ==
    /\ \/ last.op = "delete_material" /\ last.returned = "True"
       \/ last.op = "update_entry" /\ last.column = "material" /\ last.rowcount = 1
                                   /\ last.name # last.value
    /\ mechanical_properties # {}
    /\ disk.mechanical_properties # {}

\* C11: every materials row has exactly one mechanical_properties row after
\* any call of add_entry, whether it returned or raised; stated for the
\* committed tables: no later commit stores a material without its
\* properties row.
C11_OnePropertiesRowPerMaterial ==
    \A m \in disk.materials :
        Cardinality({p \in disk.mechanical_properties : p.material = m.material}) = 1

\* Python's == between a value read from a row and a value given to add_entry:
\* numbers are equal by value (1.0 == 1), anything else by type and content.
SameValue(a, b) ==
    IF a.type \in {"real", "integer"} /\ b.type \in {"real", "integer"}
    THEN a.num = b.num
    ELSE a = b

\* C17: add_entry with a new name, an existing category and six property
\* values, followed by get_entry_by_material(name): the row has that name,
\* that category and those six values.
C17_AddThenGetRoundTrip ==
    [][(/\ Called("add_entry")
        /\ last'.name \notin MaterialNames(materials)
        /\ last'.category \in material_categories
        /\ Len(last'.properties) = Len(PROPERTY_COLUMNS))
        => /\ last'.raised = "none"
           /\ \E r \in properties_view(connection') :
                /\ get_entry_by_material(connection', last'.name) = {r}
                /\ r.material = last'.name
                /\ r.category = last'.category
                /\ \A i \in DOMAIN PROPERTY_COLUMNS :
                     SameValue(r[PROPERTY_COLUMNS[i]], last'.properties[i])]_vars

\* A material was added with numbers, an empty string and None among its
\* six values, and the lookup finds it.
C17_Witness ==
    /\ last.op = "add_entry"
    /\ last.raised = "none"
    /\ last.printed = ""
    /\ Len(last.properties) = Len(PROPERTY_COLUMNS)
    /\ {last.properties[i].type : i \in DOMAIN last.properties} = {"real", "text", "null"}
    /\ get_entry_by_material(connection, last.name) # {}


Range(seq) == {seq[i] : i \in DOMAIN seq}

\* The string s holds the string t.
Contains(s, t) == \E i \in 1..(Len(s) - Len(t) + 1) : SubSeq(s, i, i + Len(t) - 1) = t

\* C12: constructing a Filter (as add_filter does) succeeds for each of the
\* operators <, =, >, >=, <= and gives a Filter object carrying the column,
\* value and operator; for any other operator it raises InvalidOperator, the
\* message holds the offending operator and every valid operator, and no
\* Filter object comes to exist.
C12_FilterConstruction ==
    [][Called("add_filter") =>
        IF last'.operator \in {"<", "=", ">", ">=", "<="}
        THEN /\ last'.raised = "none"
             /\ \E f \in Range(filters') \ Range(filters) :
                  /\ f.column = last'.column
                  /\ f.value = last'.value
                  /\ f.operator = last'.operator
        ELSE /\ last'.raised = "InvalidOperator"
             /\ Contains(last'.message, "(" \o last'.operator \o ")")
             /\ Contains(last'.message, "<, =, >, >=, <=")
             /\ Range(filters') \ Range(filters) = {}]_vars

C12_Witness ==
    /\ last.op = "add_filter"
    /\ last.raised = "InvalidOperator"
    /\ last.operator = "=="
    /\ {f.operator : f \in Range(filters)} = {">=", "<="}

\* C13: remove_filter with a filter that is not in the filter set does not
\* raise and leaves the filter set unchanged; with a filter that is in the
\* set it removes exactly that filter and keeps the others in order.
C13_RemoveFilterIsSafe ==
    [][Called("remove_filter") =>
        \A filter \in last'.filter :
            IF filter \notin Range(filters)
            THEN last'.raised = "none" /\ filters' = filters
            ELSE /\ last'.raised = "none"
                 /\ \E i \in DOMAIN filters :
                      /\ filters[i] = filter
                      /\ filters' = SubSeq(filters, 1, i - 1) \o SubSeq(filters, i + 1, Len(filters))]_vars

\* C19: the filter set starts empty; a successful add_filter appends the new
\* filter at the end and keeps the others in order; add_filter with an
\* invalid operator leaves the set unchanged; clear_filters empties it; every
\* call other than add_filter, remove_filter and clear_filters (the record
\* operations and the queries) leaves it unchanged.
C19_FiltersFrame ==
    [][/\ ops = 0 => filters = <<>>
       /\ Called("add_filter") /\ last'.raised = "none" =>
            /\ Len(filters') = Len(filters) + 1
            /\ SubSeq(filters', 1, Len(filters)) = filters
            /\ filters'[Len(filters')].column = last'.column
            /\ filters'[Len(filters')].value = last'.value
            /\ filters'[Len(filters')].operator = last'.operator
       /\ Called("add_filter") /\ last'.operator \notin {"<", "=", ">", ">=", "<="} =>
            filters' = filters
       /\ Called("clear_filters") => filters' = <<>>
       /\ ops' = ops + 1 /\ last'.op \notin {"add_filter", "remove_filter", "clear_filters"} =>
            filters' = filters]_vars

C19_Witness ==
    /\ Len(filters) = 2
    /\ filters[1].operator = "=" /\ filters[2].operator = ">"
    /\ last.op \in {"add_entry", "update_entry", "delete_material"}
    /\ last.raised = "none"


\* The row satisfies the filter: its column compares to the filter's value
\* as the filter's operator says.
Satisfies(row, f) ==
    compare(f.operator, operand(Token("word", f.column), row),
            [value |-> TEXT(f.value), affinity |-> "none"]) = "true"

\* C14: with at least one filter, get_filtered_entries returns exactly the
\* rows of the joined view that satisfy every current filter.
C14_FilteredIsConjunction ==
    [][Called("get_filtered_entries") /\ filters # <<>> =>
        /\ last'.raised = "none"
        /\ last'.row = {r \in properties_view(connection) :
                          \A f \in Range(filters) : Satisfies(r, f)}]_vars


\* the values of a column that are set (a number), over the stored rows of
\* the materials of a category
SetValues(category, column) ==
    {p \in mechanical_properties :
        /\ \E m \in materials : m.material = p.material /\ m.category = category
        /\ p[column].type \in {"integer", "real"}}

RECURSIVE Total(_, _)
Total(rows, column) ==
    IF rows = {} THEN 0
    ELSE LET r == CHOOSE x \in rows : TRUE
         IN  r[column].num + Total(rows \ {r}, column)

\* C15: get_category_summaries returns one row per category in the seeded
\* order; a category without materials has count 0 and '' for every
\* average; otherwise the count is the number of its materials and each
\* average is the mean of the values that are set (unset and cleared values
\* left out, not counted as zero).
C15_CategorySummaries ==
    [][Called("get_category_summaries") =>
        /\ last'.raised = "none"
        /\ Len(last'.rows) = Len(DEFUALT_MATERIAL_CATEGORIES)
        /\ \A i \in DOMAIN last'.rows :
             LET row == last'.rows[i]
                 members == {m \in materials : m.category = row.category}
             IN  /\ row.category = DEFUALT_MATERIAL_CATEGORIES[i]
                 /\ row.materials = Cardinality(members)
                 /\ members = {} => \A c \in PropertyColumnSet : row[c] = TEXT("")
                 /\ \A c \in PropertyColumnSet :
                      IF SetValues(row.category, c) = {} THEN row[c] = TEXT("")
                      ELSE /\ row[c].type = "real"
                           /\ row[c].sum * Cardinality(SetValues(row.category, c))
                                = Total(SetValues(row.category, c), c) * row[c].count]_vars


\* C16: get_all_entries(order_by, descending) with a column of the view
\* returns every stored material exactly once, in ascending order of that
\* column when descending is False and in descending order when it is True
\* (rows with equal values in any order).
C16_AllEntriesSortedPermutation ==
    [][Called("get_all_entries") /\ last'.column \in ViewColumns =>
        LET rows == last'.rows
        IN  /\ last'.raised = "none"
            /\ {rows[i].material : i \in DOMAIN rows} = MaterialNames(disk.materials)
            /\ \A i, j \in DOMAIN rows : rows[i].material = rows[j].material => i = j
            /\ \A i, j \in DOMAIN rows :
                 i < j => ~goes_before(rows[j], rows[i], last'.column, last'.descending)]_vars


\* C20: "Apply Filters" in the editor runs get_filtered_entries only when
\* there is a filter: with no filter present (none added yet, or all removed
\* or cleared) it lists all materials with get_all_entries, and with at
\* least one filter present it runs the filtered query.
C20_ApplyFiltersFallsBack ==
    [][Called("editor.display_filtered_materials") =>
        IF filters = <<>>
        THEN /\ last'.query = "get_all_entries"
             /\ last'.raised = "none"
             /\ Range(last'.rows) = properties_view(connection)
        ELSE last'.query = "get_filtered_entries"]_vars

C20_Witness ==
    /\ last.op = "editor.display_filtered_materials"
    /\ last.query = "get_all_entries"
    /\ filters = <<>>
    /\ ops >= 3
    /\ Len(last.rows) > 1


\* C18: in the command-line loop none of these conditions ends in an
\* exception that leaves the loop, and the menu the user was in goes on:
\* creating a database where one exists, a non-numeric value entered for a
\* numeric property in Update Material, Display Material of a name that is
\* not found, an invalid filter operator, adding a duplicate name; a failed
\* open is reported and the main menu goes on.
C18_NoErrorEndsTheProcess ==
    [][(\/ Called("create_database") /\ created
        \/ /\ Called("editor.update_material")
           /\ last'.column \in PropertyColumnSet
           /\ last'.value \notin DOMAIN FloatLiterals \cup {""}
        \/ /\ Called("editor.display_material")
           /\ ~prompt_material_name_raises(last'.name)
           /\ last'.name \notin MaterialNames(properties_view(connection))
        \/ /\ Called("editor.add_filter")
           /\ last'.operator \notin {"<", "=", ">", ">=", "<="}
        \/ /\ Called("editor.add_material")
           /\ last'.name \in MaterialNames(materials)
        \/ Called("open_existing_database") /\ ~created)
       => /\ last'.raised = "none"
          /\ menu' = menu]_vars

====
